---------------------------- MODULE Spec2Model ----------------------------
(***************************************************************************)
(* A model of backend/app.py of eastcoast-wind: the pure helpers           *)
(* (parse_valid_time, find_current_value, to_knots, create_ocean_grid)     *)
(* as operators, and the /ocean-wind-data handler with the per-point       *)
(* get_wind_data calls as a state machine.                                 *)
(*                                                                         *)
(* Representation.                                                         *)
(*  - Instants are seconds since 2024-01-01T00:00:00Z.  A datetime is a    *)
(*    record [tz, t]: tz is "aware" (carries an offset), "naive" (none),   *)
(*    or "none" for Python's None.                                         *)
(*  - A validTime string is a sequence of tokens: the timestamp is one     *)
(*    token (datetime.fromisoformat is a library call, modelled by its     *)
(*    table), every other character is a token of its own, so that the     *)
(*    split on "/" and the duration regex are modelled character by        *)
(*    character.                                                           *)
(*  - A JSON value is a record [k, v]: k is "null", "num" or "str".        *)
(*  - Coordinates are hundredths of a degree; speeds returned by to_knots  *)
(*    are millionths of a knot (fixed point instead of floats).            *)
(***************************************************************************)
EXTENDS Integers, Sequences, FiniteSets

\* ------------------------------------------------------------------ bounds

\* Largest number written in a generated duration component.
MaxComp == 2
\* Longest time series given to find_current_value on its own.
MaxSeriesLen == 2
\* Largest wind speed value given to to_knots on its own.
MaxSpeed == 12
\* Most 0.1-degree steps by which a region given to create_ocean_grid on its
\* own extends north and east of its south-west corner.
MaxSpanSteps == 3
\* Most 0.1-degree steps by which the widest region of a modelled request
\* extends east of its south-west corner.
RunSpanSteps == 3
\* The same for the regions of the requests that exhaust the point budget.
BigSpanSteps == 10

\* ------------------------------------------------------- values, datetimes

NullV == [k |-> "null", v |-> 0]
Num(n) == [k |-> "num", v |-> n]
StrV == [k |-> "str", v |-> 0]

NoneDT == [tz |-> "none", t |-> 0]
Aware(t) == [tz |-> "aware", t |-> t]
Naive(t) == [tz |-> "naive", t |-> t]

Digits == {"0", "1", "2", "3", "4", "5", "6", "7", "8", "9"}

DigitVal(c) ==
    CASE c = "0" -> 0 [] c = "1" -> 1 [] c = "2" -> 2 [] c = "3" -> 3
      [] c = "4" -> 4 [] c = "5" -> 5 [] c = "6" -> 6 [] c = "7" -> 7
      [] c = "8" -> 8 [] c = "9" -> 9

\* int(value) of a run of digits; `int(value) if value else 0` for a group
\* that did not take part in the match (the empty run).
RECURSIVE IntOf(_)
IntOf(ds) ==
    IF ds = <<>> THEN 0
    ELSE 10 * IntOf(SubSeq(ds, 1, Len(ds) - 1)) + DigitVal(ds[Len(ds)])

\* F applied to the value of v: a local variable assigned once, read often.
With(v, F(_)) == CHOOSE r \in {F(x) : x \in {v}} : TRUE

\* --------------------------------------------------------- parse_valid_time

\* How many digits stand at positions p, p+1, ... of s: the \d+ of the regex.
RECURSIVE DigitRun(_, _)
DigitRun(s, p) ==
    IF p <= Len(s) /\ s[p] \in Digits THEN 1 + DigitRun(s, p + 1) ELSE 0

\* One optional group (?:(\d+)X)? tried at position p: the digits it captured
\* (<<>> when the group does not take part) and where the match goes on.
Group(s, p, letter) ==
    With(DigitRun(s, p), LAMBDA n :
        IF n > 0 /\ p + n <= Len(s) /\ s[p + n] = letter
        THEN [val |-> SubSeq(s, p, p + n - 1), next |-> p + n + 1]
        ELSE [val |-> <<>>, next |-> p])

NoMatch == [matched |-> FALSE, days |-> <<>>, hours |-> <<>>,
            minutes |-> <<>>, seconds |-> <<>>]

\* VALID_TIME_DURATION.fullmatch(duration_str): the match's groupdict.
VALID_TIME_DURATION_fullmatch(s) ==
    IF Len(s) = 0 \/ s[1] # "P" THEN NoMatch
    ELSE
      With(Group(s, 2, "D"), LAMBDA d :
      With(d.next <= Len(s) /\ s[d.next] = "T", LAMBDA hasT :
      With(IF hasT THEN Group(s, d.next + 1, "H")
                   ELSE [val |-> <<>>, next |-> d.next], LAMBDA h :
      With(IF hasT THEN Group(s, h.next, "M") ELSE h, LAMBDA m :
      With(IF hasT THEN Group(s, m.next, "S") ELSE h, LAMBDA sec :
          IF sec.next = Len(s) + 1
          THEN [matched |-> TRUE, days |-> d.val, hours |-> h.val,
                minutes |-> m.val, seconds |-> sec.val]
          ELSE NoMatch)))))

\* timedelta with the seconds left out.
timedelta_NoSeconds(days, hours, minutes, seconds) ==
    days * 86400 + hours * 3600 + minutes * 60

\* timedelta(days, hours, minutes, seconds), in seconds.
timedelta(days, hours, minutes, seconds) ==
    days * 86400 + hours * 3600 + minutes * 60 + seconds

\* start_str.replace("Z", "+00:00") on a timestamp token.
ReplaceZ(tok) ==
    CASE tok = "2024-01-01T00:00:00Z" -> "2024-01-01T00:00:00+00:00"
      [] tok = "2024-01-01T06:00:00Z" -> "2024-01-01T06:00:00+00:00"
      [] OTHER -> tok

\* datetime.fromisoformat on the tokens left of the "/": the datetime, or
\* NoneDT where the library raises ValueError.
fromisoformat(toks) ==
    IF Len(toks) # 1 THEN NoneDT
    ELSE CASE toks[1] = "2024-01-01T00:00:00+00:00" -> Aware(0)
           [] toks[1] = "2024-01-01T06:00:00+00:00" -> Aware(21600)
           [] toks[1] = "2024-01-01T01:00:00-05:00" -> Aware(21600)
           [] toks[1] = "2024-01-01T00:00:00" -> Naive(0)
           [] OTHER -> NoneDT

\* Position of the first "/" of s, 0 when there is none.
RECURSIVE FirstSlash(_, _)
FirstSlash(s, p) ==
    IF p > Len(s) THEN 0
    ELSE IF s[p] = "/" THEN p ELSE FirstSlash(s, p + 1)

\* parse_valid_time(valid_time): <<start_dt, end_dt>>.
parse_valid_time(valid_time) ==
    With(FirstSlash(valid_time, 1), LAMBDA cut :
      IF valid_time = <<>> \/ cut = 0 THEN <<NoneDT, NoneDT>>
      ELSE
        With(SubSeq(valid_time, 1, cut - 1), LAMBDA start_str :
        With(SubSeq(valid_time, cut + 1, Len(valid_time)), LAMBDA duration_str :
        With(fromisoformat([k \in 1..Len(start_str) |-> ReplaceZ(start_str[k])]),
             LAMBDA start_dt :
          IF start_dt = NoneDT THEN <<NoneDT, NoneDT>>
          ELSE
            With(VALID_TIME_DURATION_fullmatch(duration_str), LAMBDA match :
              IF ~match.matched THEN <<start_dt, NoneDT>>
              ELSE
                With(timedelta(IntOf(match.days), IntOf(match.hours),
                               IntOf(match.minutes), IntOf(match.seconds)),
                     LAMBDA duration_delta :
                  IF duration_delta = 0 THEN <<NoneDT, NoneDT>>
                  ELSE <<start_dt, [tz |-> start_dt.tz,
                                    t |-> start_dt.t + duration_delta]>>))))))


\* ------------------------------------------------------- find_current_value

Returned(val) == [exc |-> "none", val |-> val]
Raised(exc) == [exc |-> exc, val |-> NullV]

\* find_current_value(values) of get_wind_data, with the `now` it closes over.
\* An item is [validTime, value]: item.get('validTime', '') and
\* item.get('value').  Comparing a naive start_dt with the aware `now`
\* raises TypeError in Python.
RECURSIVE find_current_value(_, _)
find_current_value(values, now) ==
    IF values = <<>> THEN Returned(NullV)
    ELSE
      With(Head(values), LAMBDA item :
      With(parse_valid_time(item.validTime), LAMBDA iv :
      With(iv[1], LAMBDA start_dt :
      With(iv[2], LAMBDA end_dt :
          IF start_dt = NoneDT \/ end_dt = NoneDT
          THEN find_current_value(Tail(values), now)
          ELSE IF start_dt.tz # now.tz THEN Raised("TypeError")
          ELSE IF start_dt.t <= now.t /\ now.t < end_dt.t
          THEN Returned(item.value)
          ELSE find_current_value(Tail(values), now)))))

\* ------------------------------------------------------------------ to_knots

\* One knot, in the fixed-point unit of to_knots' results.
Micro == 1000000

NoUom == "<None>"

\* The table with the multipliers of unit:km_h and unit:m_s exchanged.
unit_multipliers_get_Swapped(unit_code) ==
    CASE unit_code = "wmoUnit:km_h-1" -> 539957
      [] unit_code = "wmoUnit:m_s-1" -> 1943840
      [] unit_code = "wmoUnit:knot" -> 1000000
      [] unit_code = "unit:km_h" -> 1943840
      [] unit_code = "unit:m_s" -> 539957
      [] unit_code = "unit:kt" -> 1000000
      [] OTHER -> 0

\* unit_multipliers.get(unit_code), in millionths; 0 stands for None.
unit_multipliers_get(unit_code) ==
    CASE unit_code = "wmoUnit:km_h-1" -> 539957
      [] unit_code = "wmoUnit:m_s-1" -> 1943840
      [] unit_code = "wmoUnit:knot" -> 1000000
      [] unit_code = "unit:km_h" -> 539957
      [] unit_code = "unit:m_s" -> 1943840
      [] unit_code = "unit:kt" -> 1000000
      [] OTHER -> 0

\* to_knots(speed_value, unit_code).  A number n comes back as a number of
\* millionths of a knot; a string times a float raises TypeError.
to_knots(speed_value, unit_code) ==
    LET multiplier == unit_multipliers_get(unit_code)
    IN  IF speed_value = NullV THEN Returned(NullV)
        ELSE IF multiplier = 0
        THEN Returned(IF speed_value.k = "num" THEN Num(speed_value.v * Micro)
                                                ELSE speed_value)
        ELSE IF speed_value.k = "num" THEN Returned(Num(speed_value.v * multiplier))
        ELSE Raised("TypeError")

\* --------------------------------------------------------- create_ocean_grid

\* grid_spacing_km of create_ocean_grid.
grid_spacing_km == 10

\* math.cos(math.radians(lat)) in thousandths, lat in hundredths of a degree:
\* Bhaskara's rational approximation (32400 - 4x^2) / (32400 + x^2), x in degrees.
CosMilli(lat) ==
    (((324000000 - 4 * lat * lat) \div 1000) * 1000) \div ((324000000 + lat * lat) \div 1000)

\* km / 111.32, in hundredths of a degree.
km_to_deg_lat(km) == (km * 10000) \div 11132

\* km / (111.32 * cos(radians(lat))), in hundredths of a degree.
km_to_deg_lon(km, lat) == (km * 10000 * 1000) \div (11132 * CosMilli(lat))

\* The ocean test with `or` in place of `and`.
InOcean_OrForAnd(current_lat, current_lon) ==
    current_lon < -7500 \/ current_lat > 3500 \/ current_lon < -7000

\* The ocean test of create_ocean_grid:
\* current_lon < -75.0 or (current_lat > 35.0 and current_lon < -70.0).
InOcean(current_lat, current_lon) ==
    current_lon < -7500 \/ (current_lat > 3500 /\ current_lon < -7000)

\* The inner while loop: one row of the grid from current_lon on.
RECURSIVE GridRow(_, _, _, _)
GridRow(b, current_lat, current_lon, lon_step) ==
    IF current_lon <= b.east
    THEN (IF InOcean(current_lat, current_lon)
          THEN <<(<<current_lat, current_lon>>)>> ELSE <<>>)
         \o GridRow(b, current_lat, current_lon + lon_step, lon_step)
    ELSE <<>>

\* The outer while loop: the rows from current_lat on.
RECURSIVE GridRows(_, _, _)
GridRows(b, current_lat, lat_step) ==
    IF current_lat <= b.north
    THEN GridRow(b, current_lat, b.west, km_to_deg_lon(grid_spacing_km, current_lat))
         \o GridRows(b, current_lat + lat_step, lat_step)
    ELSE <<>>

\* create_ocean_grid(), reading the bounds b (EAST_COAST_BOUNDS).
create_ocean_grid(b) == GridRows(b, b.south, km_to_deg_lat(grid_spacing_km))


\* ------------------------------------------------------------------- state

VARIABLES
    call,               \* the last application of a pure helper: its arguments and result
    EAST_COAST_BOUNDS,  \* the module-level region
    provider,           \* what the upstream API may answer: [points, grid], sets of outcomes
    pc,                 \* where the /ocean-wind-data request stands
    grid_points,        \* ocean_wind_data's grid_points
    i,                  \* the index of enumerate(grid_points[:100])
    wind_features,      \* ocean_wind_data's wind_features
    result,             \* what the request returned: "none" while it runs
    dispatched,         \* the indices get_wind_data was called for, in call order
    status,             \* per dispatched index: dispatched, succeeded, failed, timed_out
    trace,              \* per dispatched index: the requests issued and their answers
    fetched             \* per dispatched index: what get_wind_data returned

runVars == <<EAST_COAST_BOUNDS, provider, pc, grid_points, i, wind_features,
             result, dispatched, status, trace, fetched>>
vars == <<call, EAST_COAST_BOUNDS, provider, pc, grid_points, i, wind_features,
          result, dispatched, status, trace, fetched>>

Region(s, n, w, e) == [south |-> s, north |-> n, west |-> w, east |-> e]

\* -------------------------------------------------- provider data (inputs)

Item(validTime, value) == [validTime |-> validTime, value |-> value]

VT_00Z_PT6H == <<"2024-01-01T00:00:00Z", "/", "P", "T", "6", "H">>
VT_06Z_PT6H == <<"2024-01-01T06:00:00Z", "/", "P", "T", "6", "H">>
VT_00_P1D == <<"2024-01-01T00:00:00+00:00", "/", "P", "1", "D">>
VT_00Z_P0D == <<"2024-01-01T00:00:00Z", "/", "P", "0", "D">>
VT_00Z_P1W == <<"2024-01-01T00:00:00Z", "/", "P", "1", "W">>
VT_bad_PT6H == <<"not-a-time", "/", "P", "T", "6", "H">>
VT_naive_PT6H == <<"2024-01-01T00:00:00", "/", "P", "T", "6", "H">>

\* The forecastGridData documents the grid request may answer with:
\* properties.windSpeed.values / .uom and properties.windDirection.values
\* (an absent windSpeed or windDirection reads as no values and no uom).
DocNames == {"ok", "kmh_nodir", "nullspeed", "zero_nouom", "str_nouom",
             "str_kt", "naive", "empty"}

GridDoc(name) ==
    LET dir270 == <<Item(VT_00Z_PT6H, Num(270))>>
        doc(sv, uom, dv) == [windSpeed |-> [values |-> sv, uom |-> uom],
                             windDirection |-> [values |-> dv]]
    IN  CASE name = "ok" ->
               doc(<<Item(VT_00Z_PT6H, Num(10))>>, "wmoUnit:m_s-1", dir270)
          [] name = "kmh_nodir" ->
               doc(<<Item(VT_00Z_P0D, Num(99)), Item(VT_00_P1D, Num(10))>>,
                   "wmoUnit:km_h-1", <<>>)
          [] name = "nullspeed" ->
               doc(<<Item(VT_00Z_PT6H, NullV)>>, "wmoUnit:knot", dir270)
          [] name = "zero_nouom" ->
               doc(<<Item(VT_00Z_PT6H, Num(0))>>, NoUom, dir270)
          [] name = "str_nouom" ->
               doc(<<Item(VT_00Z_PT6H, StrV)>>, NoUom, dir270)
          [] name = "str_kt" ->
               doc(<<Item(VT_00Z_PT6H, StrV)>>, "unit:kt", dir270)
          [] name = "naive" ->
               doc(<<Item(VT_naive_PT6H, Num(10))>>, "unit:kt", dir270)
          [] OTHER -> doc(<<>>, NoUom, <<>>)

\* datetime.now(timezone.utc) at the time of a fetch.
RunNows == {0, 21600}

FailKinds == {"non200", "transport", "timeout", "missing"}

Outcome(kind, doc, now) == [kind |-> kind, doc |-> doc, now |-> now]

\* What requests.get(points_url) and the reading of forecastGridData can do.
PointsOutcomes == {Outcome(k, "", 0) : k \in FailKinds \cup {"ok"}}

\* What requests.get(grid_url) and the reading of properties can do.
GridOutcomes ==
    {Outcome(k, "", 0) : k \in FailKinds}
    \cup {Outcome("ok", d, n) : d \in DocNames, n \in RunNows}

\* ------------------------------------------------------------ get_wind_data

NoneWD == [none |-> TRUE, speed_kt |-> NullV, direction |-> NullV, lat |-> 0, lon |-> 0]

\* get_wind_data from grid_data = grid_response.json() on: the properties are
\* read, the current values found and converted.  Any exception on the way is
\* caught by the function's except clause, which returns None.
wind_data_of(properties, now, lat, lon) ==
    With(find_current_value(properties.windSpeed.values, Aware(now)),
         LAMBDA wind_speed_value :
      IF wind_speed_value.exc # "none" THEN NoneWD
      ELSE
        With(properties.windSpeed.uom, LAMBDA wind_speed_uom :
        With(find_current_value(properties.windDirection.values, Aware(now)),
             LAMBDA wind_direction :
          IF wind_direction.exc # "none" THEN NoneWD
          ELSE
            With(to_knots(wind_speed_value.val, wind_speed_uom), LAMBDA wind_speed_kt :
              IF wind_speed_kt.exc # "none" THEN NoneWD
              ELSE [none |-> FALSE, speed_kt |-> wind_speed_kt.val,
                    direction |-> wind_direction.val, lat |-> lat, lon |-> lon]))))

\* ---------------------------------------------------------- ocean_wind_data

Put(f, k, v) == [x \in DOMAIN f \cup {k} |-> IF x = k THEN v ELSE f[x]]

Min(a, b) == IF a < b THEN a ELSE b

POINT_BUDGET == 100

\* The loop over grid_points without the slice.
Budgeted_NoSlice(points) == points

\* The slice grid_points[:100].
Budgeted(points) == SubSeq(points, 1, Min(POINT_BUDGET, Len(points)))

\* if i % 5 == 0
SAMPLE_STRIDE == 5
Sampled(idx) == idx % SAMPLE_STRIDE = 0

\* The feature built from wind_data (speed_mph and speed_kmh, speed_kt times a
\* float, are present whenever the feature is and are left out).
Feature(wind_data) ==
    [type |-> "Feature",
     coordinates |-> <<wind_data.lon, wind_data.lat>>,
     speed_kt |-> wind_data.speed_kt,
     dir_from_deg |-> wind_data.direction]

\* The test without `is not None`.
Emits_AnyWindData(wind_data) == ~wind_data.none

\* `if wind_data and wind_data['speed_kt'] is not None`
Emits(wind_data) == ~wind_data.none /\ wind_data.speed_kt # NullV

\* wind_features.insert(0, feature)
Appended_AtFront(features, feature) == <<feature>> \o features

\* wind_features.append(feature)
Appended(features, feature) == Append(features, feature)

\* The request arrives: the grid is created, the loop starts.
Request ==
    /\ pc = "idle"
    /\ grid_points' = create_ocean_grid(EAST_COAST_BOUNDS)
    /\ wind_features' = <<>>
    /\ i' = 0
    /\ pc' = "loop"
    /\ UNCHANGED <<call, EAST_COAST_BOUNDS, provider, result, dispatched, status,
                   trace, fetched>>

\* An iteration for an index that is not sampled.
Skip ==
    /\ pc = "loop"
    /\ i < Len(Budgeted(grid_points))
    /\ ~Sampled(i)
    /\ i' = i + 1
    /\ UNCHANGED <<call, EAST_COAST_BOUNDS, provider, pc, grid_points, wind_features,
                   result, dispatched, status, trace, fetched>>

\* An iteration for a sampled index: get_wind_data is called and issues
\* requests.get(points_url).
Dispatch ==
    /\ pc = "loop"
    /\ i < Len(Budgeted(grid_points))
    /\ Sampled(i)
    /\ dispatched' = Append(dispatched, i)
    /\ status' = Put(status, i, "dispatched")
    /\ trace' = Put(trace, i, (IF i \in DOMAIN trace THEN trace[i] ELSE <<>>)
                               \o <<"GET points">>)
    /\ pc' = "points"
    /\ UNCHANGED <<call, EAST_COAST_BOUNDS, provider, grid_points, i, wind_features,
                   result, fetched>>

\* get_wind_data lets the exception through: the handler answers the error.
PointDropped_Propagates(kind) ==
    /\ status' = Put(status, i, IF kind = "timeout" THEN "timed_out" ELSE "failed")
    /\ trace' = Put(trace, i, Append(trace[i], IF kind = "raised" THEN "ok" ELSE kind))
    /\ fetched' = Put(fetched, i, NoneWD)
    /\ result' = "error"
    /\ pc' = "done"
    /\ UNCHANGED <<call, EAST_COAST_BOUNDS, provider, grid_points, i, wind_features,
                   dispatched>>

\* The loop ends at the first point get_wind_data returns None for.
PointDropped_Breaks(kind) ==
    /\ status' = Put(status, i, IF kind = "timeout" THEN "timed_out" ELSE "failed")
    /\ trace' = Put(trace, i, Append(trace[i], IF kind = "raised" THEN "ok" ELSE kind))
    /\ fetched' = Put(fetched, i, NoneWD)
    /\ i' = Len(Budgeted(grid_points))
    /\ pc' = "loop"
    /\ UNCHANGED <<call, EAST_COAST_BOUNDS, provider, grid_points, wind_features,
                   result, dispatched>>

\* get_wind_data returns None (kind: how the last request ended, "raised"
\* when it answered 200 and reading the answer raised): no feature, the loop
\* goes on.
PointDropped(kind) ==
    /\ status' = Put(status, i, IF kind = "timeout" THEN "timed_out" ELSE "failed")
    /\ trace' = Put(trace, i, Append(trace[i], IF kind = "raised" THEN "ok" ELSE kind))
    /\ fetched' = Put(fetched, i, NoneWD)
    /\ i' = i + 1
    /\ pc' = "loop"
    /\ UNCHANGED <<call, EAST_COAST_BOUNDS, provider, grid_points, wind_features,
                   result, dispatched>>

\* The points request ends without a usable answer: a status other than 200,
\* a transport error, a timeout, or no properties.forecastGridData.
PointsFail ==
    /\ pc = "points"
    /\ \E o \in provider.points :
          /\ o.kind \in FailKinds
          /\ PointDropped(o.kind)

\* The points request answers 200 with a forecastGridData link:
\* requests.get(grid_url) is issued.
PointsOk ==
    /\ pc = "points"
    /\ \E o \in provider.points : o.kind = "ok"
    /\ trace' = Put(trace, i, trace[i] \o <<"ok", "GET grid">>)
    /\ pc' = "grid"
    /\ UNCHANGED <<call, EAST_COAST_BOUNDS, provider, grid_points, i, wind_features,
                   result, dispatched, status, fetched>>

\* The grid request ends without a usable answer.
GridFail ==
    /\ pc = "grid"
    /\ \E o \in provider.grid :
          /\ o.kind \in FailKinds
          /\ PointDropped(o.kind)

\* The grid request answers 200 with properties, but reading them raises
\* (caught in get_wind_data).
GridRaises ==
    /\ pc = "grid"
    /\ \E o \in provider.grid :
          /\ o.kind = "ok"
          /\ wind_data_of(GridDoc(o.doc), o.now, grid_points[i + 1][1],
                          grid_points[i + 1][2]).none
          /\ PointDropped("raised")

\* The grid request answers 200 and get_wind_data returns wind_data; the
\* handler appends a feature when there is a speed.
GridOk ==
    /\ pc = "grid"
    /\ \E o \in provider.grid :
          /\ o.kind = "ok"
          /\ LET wind_data == wind_data_of(GridDoc(o.doc), o.now,
                                           grid_points[i + 1][1], grid_points[i + 1][2])
             IN  /\ ~wind_data.none
                 /\ ~(Emits(wind_data) /\ wind_data.speed_kt.k = "str")
                 /\ status' = Put(status, i, "succeeded")
                 /\ trace' = Put(trace, i, Append(trace[i], "ok"))
                 /\ fetched' = Put(fetched, i, wind_data)
                 /\ wind_features' = IF Emits(wind_data)
                                     THEN Appended(wind_features, Feature(wind_data))
                                     ELSE wind_features
    /\ i' = i + 1
    /\ pc' = "loop"
    /\ UNCHANGED <<call, EAST_COAST_BOUNDS, provider, grid_points, result, dispatched>>

\* get_wind_data returns wind_data whose speed_kt is a string: building the
\* feature (speed_kt * 1.15078) raises TypeError, the handler's except clause
\* answers {"error": ...} with status 500.
GridOkFeatureRaises ==
    /\ pc = "grid"
    /\ \E o \in provider.grid :
          /\ o.kind = "ok"
          /\ LET wind_data == wind_data_of(GridDoc(o.doc), o.now,
                                           grid_points[i + 1][1], grid_points[i + 1][2])
             IN  /\ ~wind_data.none
                 /\ Emits(wind_data) /\ wind_data.speed_kt.k = "str"
                 /\ status' = Put(status, i, "succeeded")
                 /\ trace' = Put(trace, i, Append(trace[i], "ok"))
                 /\ fetched' = Put(fetched, i, wind_data)
    /\ result' = "error"
    /\ pc' = "done"
    /\ UNCHANGED <<call, EAST_COAST_BOUNDS, provider, grid_points, i, wind_features,
                   dispatched>>

\* The loop is over: the FeatureCollection is returned.
Return ==
    /\ pc = "loop"
    /\ i >= Len(Budgeted(grid_points))
    /\ result' = "FeatureCollection"
    /\ pc' = "done"
    /\ UNCHANGED <<call, EAST_COAST_BOUNDS, provider, grid_points, i, wind_features,
                   dispatched, status, trace, fetched>>

RunNext ==
    \/ Request
    \/ Skip
    \/ Dispatch
    \/ PointsFail
    \/ PointsOk
    \/ GridFail
    \/ GridRaises
    \/ GridOk
    \/ GridOkFeatureRaises
    \/ Return

NoCall == [fn |-> "none"]

\* The regions of the modelled requests: north below south, a single point
\* (north = south, east = west), a small region and a wider one.
RunRegions ==
    {Region(3500, 3500 + 10 * sp[1], -7520, -7520 + 10 * sp[2]) :
        sp \in {<<-1, 1>>, <<0, 0>>, <<1, 1>>, <<3, RunSpanSteps>>}}

RunInit(regions, providers) ==
    /\ call = NoCall
    /\ EAST_COAST_BOUNDS \in regions
    /\ provider \in providers
    /\ pc = "idle"
    /\ grid_points = <<>>
    /\ i = 0
    /\ wind_features = <<>>
    /\ result = "none"
    /\ dispatched = <<>>
    /\ status = <<>>
    /\ trace = <<>>
    /\ fetched = <<>>

\* A request against an upstream API free to answer anything at every call.
Init == RunInit(RunRegions, {[points |-> PointsOutcomes, grid |-> GridOutcomes]})

Next == RunNext

Spec == Init /\ [][Next]_vars

\* Requests over regions large enough to exhaust the point budget, against an
\* upstream API that answers every call of a request the same way.
BudgetRegions ==
    {Region(3500, 3500 + 10 * k, -7600, -7600 + 10 * k) :
        k \in {BigSpanSteps \div 2, BigSpanSteps}}

UniformProviders ==
    {[points |-> {p}, grid |-> {g}] : p \in PointsOutcomes, g \in GridOutcomes}

InitBudget == RunInit(BudgetRegions, UniformProviders)

SpecBudget == InitBudget /\ [][Next]_vars

\* ------------------------------------------- the pure helpers on their own

DigitChar(n) == CHOOSE c \in Digits : DigitVal(c) = n

RECURSIVE ToDigits(_)
ToDigits(n) ==
    IF n < 10 THEN <<DigitChar(n)>> ELSE ToDigits(n \div 10) \o <<DigitChar(n % 10)>>

\* A duration component written out: nothing for an absent one (-1).
Comp(n, letter) == IF n < 0 THEN <<>> ELSE ToDigits(n) \o <<letter>>

DurationTokens(d, hasT, h, m, sec) ==
    <<"P">> \o Comp(d, "D")
    \o (IF hasT THEN <<"T">> \o Comp(h, "H") \o Comp(m, "M") \o Comp(sec, "S") ELSE <<>>)

Zero(n) == IF n < 0 THEN 0 ELSE n

TsTokens == {"2024-01-01T00:00:00Z", "2024-01-01T00:00:00+00:00",
             "2024-01-01T06:00:00Z", "2024-01-01T01:00:00-05:00",
             "2024-01-01T00:00:00", "not-a-time"}

CompVals == -1..MaxComp

\* Durations the grammar accepts, each with the length it denotes.
WellFormedDurations ==
    {[toks |-> DurationTokens(d, FALSE, -1, -1, -1), total |-> Zero(d) * 86400] :
        d \in CompVals}
    \cup {[toks |-> DurationTokens(c[1], TRUE, c[2], c[3], c[4]),
           total |-> Zero(c[1]) * 86400 + Zero(c[2]) * 3600 + Zero(c[3]) * 60 + Zero(c[4])] :
            c \in CompVals \X CompVals \X CompVals \X CompVals}
    \cup {[toks |-> <<"P", "T", "6", "H">>, total |-> 21600],
          [toks |-> <<"P", "T", "0", "6", "H">>, total |-> 21600],
          [toks |-> <<"P", "T", "9", "0", "M">>, total |-> 5400],
          [toks |-> <<"P", "1", "0", "D">>, total |-> 864000],
          [toks |-> <<"P", "0", "D", "T", "0", "0", "S">>, total |-> 0]}

\* Right-hand sides the grammar rejects.
MalformedDurations ==
    {<<>>, <<"P", "1", "W">>, <<"T", "6", "H">>, <<"6", "H">>, <<"P", "6", "H">>,
     <<"P", "T", "6">>, <<"P", "T", "6", "M", "5", "H">>, <<"P", "T", "6", "H", "/">>,
     <<"p", "t", "6", "h">>, <<"P", "T", "-", "6", "H">>, <<"P", "T", "T", "6", "H">>,
     <<"P", "D">>, <<"P", "T", "6", "H", "6", "H">>}

\* validTime strings with what was written into them.
ParseInputs ==
    {[valid_time |-> <<ts, "/">> \o d.toks, ts |-> ts, shape |-> "wellformed",
      total |-> d.total] : ts \in TsTokens, d \in WellFormedDurations}
    \cup {[valid_time |-> <<ts, "/">> \o toks, ts |-> ts, shape |-> "malformed",
           total |-> 0] : ts \in TsTokens, toks \in MalformedDurations}
    \cup {[valid_time |-> vt, ts |-> "", shape |-> "noslash", total |-> 0] :
            vt \in {<<>>, <<"2024-01-01T00:00:00Z">>, <<"P", "T", "6", "H">>}}
    \cup {[valid_time |-> <<"/", "P", "T", "6", "H">>, ts |-> "", shape |-> "wellformed",
           total |-> 21600]}

\* Series entries: in force over [0, 6h), [6h, 12h), [0, 24h); of no length;
\* open-ended; unparsable; in force with a null value; without an offset;
\* without a validTime.
SeriesItems ==
    {Item(VT_00Z_PT6H, Num(10)), Item(VT_06Z_PT6H, Num(20)), Item(VT_00_P1D, Num(30)),
     Item(VT_00Z_P0D, Num(40)), Item(VT_00Z_P1W, Num(50)), Item(VT_bad_PT6H, Num(60)),
     Item(VT_00Z_PT6H, NullV), Item(VT_naive_PT6H, Num(70)), Item(<<>>, Num(80))}

RECURSIVE SeqsUpTo(_, _)
SeqsUpTo(S, n) ==
    IF n = 0 THEN {<<>>}
    ELSE SeqsUpTo(S, n - 1)
         \cup {Append(q, x) : q \in {r \in SeqsUpTo(S, n - 1) : Len(r) = n - 1}, x \in S}

FindNows == {Aware(-1), Aware(0), Aware(21599), Aware(21600), Aware(43200), Aware(86400)}

SpeedValues == {NullV, StrV} \cup {Num(n) : n \in 0..MaxSpeed}

KnownUnitCodes == {"wmoUnit:km_h-1", "wmoUnit:m_s-1", "wmoUnit:knot",
                   "unit:km_h", "unit:m_s", "unit:kt"}

UnitCodes == KnownUnitCodes \cup {"unknown-code", "", NoUom}

GridRegions ==
    {Region(sw[1], sw[1] + 10 * a, sw[2], sw[2] + 10 * b) :
        sw \in {3490, 3500} \X {-7520, -7020}, a \in -1..MaxSpanSteps, b \in -1..MaxSpanSteps}

ApplyParseValidTime ==
    /\ call = NoCall
    /\ \E in \in ParseInputs :
          call' = [fn |-> "parse_valid_time", in |-> in,
                   ret |-> parse_valid_time(in.valid_time)]
    /\ UNCHANGED runVars

ApplyFindCurrentValue ==
    /\ call = NoCall
    /\ \E values \in SeqsUpTo(SeriesItems, MaxSeriesLen), now \in FindNows :
          call' = [fn |-> "find_current_value", in |-> [values |-> values, now |-> now],
                   ret |-> find_current_value(values, now)]
    /\ UNCHANGED runVars

ApplyToKnots ==
    /\ call = NoCall
    /\ \E speed_value \in SpeedValues, unit_code \in UnitCodes :
          call' = [fn |-> "to_knots",
                   in |-> [speed_value |-> speed_value, unit_code |-> unit_code],
                   ret |-> to_knots(speed_value, unit_code)]
    /\ UNCHANGED runVars

ApplyCreateOceanGrid ==
    /\ call = NoCall
    /\ \E b \in GridRegions :
          call' = [fn |-> "create_ocean_grid", in |-> b, ret |-> create_ocean_grid(b)]
    /\ UNCHANGED runVars

PureNext ==
    \/ ApplyParseValidTime
    \/ ApplyFindCurrentValue
    \/ ApplyToKnots
    \/ ApplyCreateOceanGrid

PureInit ==
    RunInit({Region(3500, 3500, -7520, -7520)},
            {[points |-> PointsOutcomes, grid |-> GridOutcomes]})

SpecPure == PureInit /\ [][PureNext]_vars

\* ------------------------------------------------------------------- claims

Terminal == {"succeeded", "failed", "timed_out"}

\* The [lon, lat] of the grid point at index d of grid_points.
CoordsOf(d) == <<grid_points[d + 1][2], grid_points[d + 1][1]>>

\* The indices of the budgeted prefix that the stride selects.
SelectedIndices ==
    {d \in 0..(Len(grid_points) - 1) : d < 100 /\ d % 5 = 0}

\* C1: a request never ends in an error because fetches failed: when every
\* dispatched fetch has failed or timed out the request returns a
\* FeatureCollection without features, and a request that ends in an error
\* has a fetch that succeeded.
C1_FailedFetchesNeverFailTheRun ==
    /\ (pc = "done" /\ \A d \in DOMAIN status : status[d] \in {"failed", "timed_out"})
          => (result = "FeatureCollection" /\ wind_features = <<>>)
    /\ result = "error" => \E d \in DOMAIN status : status[d] = "succeeded"

C1_Witness ==
    /\ pc = "done"
    /\ result = "FeatureCollection"
    /\ Len(dispatched) >= 3
    /\ \A d \in DOMAIN status : status[d] \in {"failed", "timed_out"}
    /\ \E d \in DOMAIN status : trace[d] = <<"GET points", "timeout">>
    /\ \E d \in DOMAIN status : trace[d] = <<"GET points", "ok", "GET grid", "non200">>
    /\ \E d \in DOMAIN status : trace[d] = <<"GET points", "missing">>

\* C2: as long as the request has not ended in an error, the features are
\* exactly one per dispatched point whose fetch succeeded with a speed that is
\* not null, none for any other point, and no feature has a null speed_kt.
C2_FeatureIffSucceededWithSpeed ==
    result # "error" =>
      /\ \A k \in 1..Len(wind_features) :
            /\ wind_features[k].speed_kt # NullV
            /\ \E d \in DOMAIN status : CoordsOf(d) = wind_features[k].coordinates
      /\ \A d \in DOMAIN status :
            status[d] \in Terminal =>
              Cardinality({k \in 1..Len(wind_features) :
                              wind_features[k].coordinates = CoordsOf(d)})
                = IF status[d] = "succeeded" /\ fetched[d].speed_kt # NullV THEN 1 ELSE 0

C2_Witness ==
    /\ pc = "done"
    /\ result = "FeatureCollection"
    /\ Len(wind_features) = 1
    /\ wind_features[1].dir_from_deg = NullV
    /\ \E d \in DOMAIN status : status[d] = "timed_out"
    /\ \E d \in DOMAIN status : status[d] = "succeeded" /\ fetched[d].speed_kt = NullV

\* C3: the features stand in the order in which their points were dispatched.
C3_FeaturesInDispatchOrder ==
    \A k1, k2 \in 1..Len(wind_features) :
        k1 < k2 =>
          \E p1, p2 \in 1..Len(dispatched) :
              /\ CoordsOf(dispatched[p1]) = wind_features[k1].coordinates
              /\ CoordsOf(dispatched[p2]) = wind_features[k2].coordinates
              /\ p1 < p2

C3_Witness ==
    /\ pc = "done"
    /\ result = "FeatureCollection"
    /\ Len(dispatched) >= 3
    /\ Len(wind_features) = 2
    /\ status[dispatched[2]] = "failed"

\* C4: only indices 0, 5, 10, ... below 100 are dispatched, each once and in
\* order, so at most 20 fetches; a request that returns its FeatureCollection
\* has dispatched every one of them.
C4_BudgetAndStride ==
    /\ \A p \in 1..Len(dispatched) :
          /\ dispatched[p] = 5 * (p - 1)
          /\ dispatched[p] < 100
          /\ dispatched[p] < Len(grid_points)
    /\ Len(dispatched) <= 20
    /\ \A d \in DOMAIN trace :
          Cardinality({k \in 1..Len(trace[d]) : trace[d][k] = "GET points"}) = 1
    /\ (pc = "done" /\ result = "FeatureCollection")
          => {dispatched[p] : p \in 1..Len(dispatched)} = SelectedIndices

C4_Witness ==
    /\ pc = "done"
    /\ result = "FeatureCollection"
    /\ Len(grid_points) > 100
    /\ Len(dispatched) = 20
    /\ Len(wind_features) = 20

\* C5: a request over a region with north <= south or east <= west ends in an
\* error.
C5_InvalidRegionFails ==
    (pc = "done" /\ (EAST_COAST_BOUNDS.north <= EAST_COAST_BOUNDS.south
                     \/ EAST_COAST_BOUNDS.east <= EAST_COAST_BOUNDS.west))
        => result = "error"

\* The requests and answers of one point, in order: the points request, its
\* answer, and only after an "ok" the grid request and its answer.
WellFormedTrace(t) ==
    /\ Len(t) \in 1..4
    /\ t[1] = "GET points"
    /\ Len(t) = 2 => t[2] \in FailKinds
    /\ Len(t) >= 3 => t[2] = "ok" /\ t[3] = "GET grid"
    /\ Len(t) = 4 => t[4] \in FailKinds \cup {"ok"}

C10_Lifecycle ==
    /\ \A d \in DOMAIN status :
          /\ status[d] \in {"dispatched"} \cup Terminal
          /\ WellFormedTrace(trace[d])
          /\ status[d] = "dispatched" <=> Len(trace[d]) \in {1, 3}
          /\ status[d] = "dispatched" => (d = i /\ pc \in {"points", "grid"})
          /\ status[d] = "succeeded" => (Len(trace[d]) = 4 /\ trace[d][4] = "ok")
          /\ status[d] = "timed_out" => trace[d][Len(trace[d])] = "timeout"
    /\ pc = "done" => \A d \in DOMAIN status : status[d] \in Terminal
    /\ (pc = "done" /\ result = "FeatureCollection")
          => \A d \in SelectedIndices : d \in DOMAIN status /\ status[d] \in Terminal

C10_Step ==
    \A d \in DOMAIN status :
        /\ d \in DOMAIN status'
        /\ status[d] \in Terminal => (status'[d] = status[d] /\ trace'[d] = trace[d])

\* C10: every dispatched point is in flight and then in exactly one of
\* succeeded, failed, timed_out for good; the request returns only when no
\* point is in flight, and returns its FeatureCollection only when every
\* selected point has been dispatched and has ended, whatever the earlier
\* points did; the grid request of a point follows an "ok" answer to its
\* points request, and no request is issued twice.
C10_PointLifecycle == []C10_Lifecycle /\ [][C10_Step]_vars

C10_Witness ==
    /\ pc = "done"
    /\ result = "FeatureCollection"
    /\ Len(dispatched) >= 3
    /\ status[dispatched[1]] = "timed_out"
    /\ status[dispatched[2]] = "failed" /\ Len(trace[dispatched[2]]) = 4
    /\ status[dispatched[3]] = "succeeded"

\* Whether the interval of item, as parse_valid_time resolves it, holds `now`.
InForce(item, now) ==
    LET iv == parse_valid_time(item.validTime)
    IN  /\ iv[1] # NoneDT
        /\ iv[2] # NoneDT
        /\ iv[1].t <= now.t
        /\ now.t < iv[2].t

\* The value of the first entry in force at `now`, null when there is none.
FirstInForce(values, now) ==
    LET hits == {k \in 1..Len(values) : InForce(values[k], now)}
    IN  IF hits = {} THEN NullV
        ELSE values[CHOOSE k \in hits : \A h \in hits : k <= h].value

\* C6: find_current_value returns, for every series and every instant, the
\* value of the first entry in force and null when none is, without raising.
C6_SelectsFirstInForce ==
    call.fn = "find_current_value" =>
        /\ call.ret.exc = "none"
        /\ call.ret.val = FirstInForce(call.in.values, call.in.now)

\* The same over the series in which every timestamp that parses carries an
\* offset (supporting C6: the divergence is confined to the other series).
SelectsFirstInForceWithOffsets ==
    (/\ call.fn = "find_current_value"
     /\ \A k \in 1..Len(call.in.values) :
           parse_valid_time(call.in.values[k].validTime)[1].tz # "naive")
        => /\ call.ret.exc = "none"
           /\ call.ret.val = FirstInForce(call.in.values, call.in.now)

\* The instant a timestamp token denotes, NoneDT for one that is no timestamp.
ExpectedInstant(tok) ==
    CASE tok \in {"2024-01-01T00:00:00Z", "2024-01-01T00:00:00+00:00"} -> Aware(0)
      [] tok \in {"2024-01-01T06:00:00Z", "2024-01-01T01:00:00-05:00"} -> Aware(21600)
      [] tok = "2024-01-01T00:00:00" -> Naive(0)
      [] OTHER -> NoneDT

C8_ToKnots ==
    call.fn = "to_knots" =>
        LET v == call.in.speed_value
            u == call.in.unit_code
            ret == call.ret
        IN  /\ v = NullV => ret = Returned(NullV)
            /\ v.k = "num" =>
                  /\ ret.exc = "none"
                  /\ u \in {"wmoUnit:km_h-1", "unit:km_h"} => ret.val = Num(v.v * 539957)
                  /\ u \in {"wmoUnit:m_s-1", "unit:m_s"} => ret.val = Num(v.v * 1943840)
                  /\ u \in {"wmoUnit:knot", "unit:kt"} => ret.val = Num(v.v * 1000000)
                  /\ u \in {"unknown-code", "", NoUom} => ret.val = Num(v.v * 1000000)

C8_Witness ==
    /\ call.fn = "to_knots"
    /\ call.in = [speed_value |-> Num(10), unit_code |-> "wmoUnit:m_s-1"]
    /\ call.ret = Returned(Num(19438400))

\* C9: every point of the grid lies in [south, north] x [west, east] and in
\* the ocean area, and no point comes twice.
C9_GridInsideRegion ==
    call.fn = "create_ocean_grid" =>
        LET b == call.in
            points == call.ret
        IN  /\ \A k \in 1..Len(points) :
                  /\ b.south <= points[k][1] /\ points[k][1] <= b.north
                  /\ b.west <= points[k][2] /\ points[k][2] <= b.east
                  /\ \/ points[k][2] < -7500
                     \/ (points[k][1] > 3500 /\ points[k][2] < -7000)
            /\ \A k1, k2 \in 1..Len(points) : points[k1] = points[k2] => k1 = k2

C9_Witness ==
    /\ call.fn = "create_ocean_grid"
    /\ call.in = Region(3490, 3520, -7520, -7490)
    /\ Len(call.ret) = 11
    /\ \E k \in 1..Len(call.ret) : call.ret[k] = <<3514, -7498>>

=============================================================================
